---- MODULE Spec2Model ----
(***************************************************************************)
(* Dispatch-and-reconciliation engine of go-multicall: the MultiCall       *)
(* object (multicall.go) and the write / asRead / read / getData /         *)
(* makeCall pipeline with its result reconciler.                           *)
(*                                                                         *)
(* One invocation of a public entry point is a sequence of steps, one per  *)
(* request to the transport client or the signer.  The outcome of every    *)
(* request (error or response) is chosen by the environment.               *)
(***************************************************************************)
EXTENDS Integers, Sequences, FiniteSets, TLC

\* Largest number of calls (or addresses) in one call set.
MaxCalls == 2

VARIABLES
    mc,        \* the MultiCall object: constructed, ContractAddress, Signer
    bytecode,  \* length of the bytecode CodeAt returned to NewMultiCall (-1: none yet)
    pc,        \* position of the running invocation
    args,      \* arguments of the running entry point
    fr,        \* parameters handed to write / asRead / read / getData
    loc,       \* local variables of the running function
    netlog,    \* requests made to the client and the signer in this invocation, in order
    result,    \* the Result returned by the invocation
    abort      \* reason of the runtime panic that ended the process ("" if none)

vars == <<mc, bytecode, pc, args, fr, loc, netlog, result, abort>>

----------------------------------------------------------------------------
\* Decoded values (Go's any tree).  t: "bytes" (raw return data of slot id,
\* ty = 1 iff it decodes against declared types), "list" ([]any), "bool",
\* "uint", "hex", "val" (bytes of slot id decoded against the types of call ty).

VBytes(i, good) == [t |-> "bytes", id |-> i, ty |-> IF good THEN 1 ELSE 0, items |-> <<>>]
VList(s) == [t |-> "list", id |-> 0, ty |-> 0, items |-> s]
VBool(b) == [t |-> "bool", id |-> IF b THEN 1 ELSE 0, ty |-> 0, items |-> <<>>]
VUint(i) == [t |-> "uint", id |-> i, ty |-> 0, items |-> <<>>]
VHex(i) == [t |-> "hex", id |-> i, ty |-> 0, items |-> <<>>]
VVal(i, k) == [t |-> "val", id |-> i, ty |-> k, items |-> <<>>]
VReceipt(status) == [t |-> "receipt", id |-> status, ty |-> 0, items |-> <<>>]

\* Errors: nil, or a message with the error it wraps.
NilErr == [isNil |-> TRUE, msg |-> "", cause |-> ""]
Err(m, c) == [isNil |-> FALSE, msg |-> m, cause |-> c]

\* TxOrCall{}: the zero value.
EmptyTxOrCall == [kind |-> "empty", from |-> "", block |-> "nil"]

FromTxToTxOrCall(tx, from, blockNumber) == [kind |-> "tx", from |-> from, block |-> blockNumber]

FromCallToTxOrCall(call, blockNumber) == [kind |-> "call", from |-> call.from, block |-> blockNumber]

NoResult == [set |-> FALSE, Success |-> FALSE, Result |-> VList(<<>>), Error |-> NilErr,
             TxOrCall |-> EmptyTxOrCall]

MkResult(s, r, e, t) == [set |-> TRUE, Success |-> s, Result |-> r, Error |-> e, TxOrCall |-> t]

NoCallData == [sig |-> "", n |-> 0, withValue |-> FALSE, failureShape |-> FALSE, rs |-> "none"]
NoCallMsg == [from |-> "", to |-> "", data |-> NoCallData, value |-> 0, block |-> "nil"]
NoEnc == [ok |-> TRUE, arr |-> <<>>]

InitArgs == [entry |-> "", n |-> 0, rt |-> <<>>, isCall |-> FALSE, requireSuccess |-> FALSE,
             blockNumber |-> "nil", value |-> 0]

InitFr == [fn |-> "", funcSignature |-> "", txReturnTypes |-> <<>>, requireSuccess |-> FALSE,
           isSimulation |-> FALSE, withValue |-> FALSE, isMultiCall3Type |-> FALSE,
           hasAddresses |-> FALSE]

InitLoc == [callData |-> NoCallData, msgValue |-> 0, tx |-> NoCallMsg, signed |-> FALSE,
            enc |-> NoEnc, err |-> NilErr, dec |-> <<>>, agg |-> <<>>, call |-> NoCallMsg,
            isSimulation |-> FALSE, revert |-> "none", inner |-> <<>>]

Init ==
    /\ mc = [constructed |-> FALSE, ContractAddress |-> "nil", Signer |-> "nil"]
    /\ bytecode = -1
    /\ pc = "idle"
    /\ args = InitArgs
    /\ fr = InitFr
    /\ loc = InitLoc
    /\ netlog = <<>>
    /\ result = NoResult
    /\ abort = ""

----------------------------------------------------------------------------
\* Inputs of the entry points.

BlockNumbers == {"nil", "pinned"}
MsgValues == {0, 1}
\* The total value of a call set: an empty one carries none.
TotalValues(n) == IF n = 0 THEN {0} ELSE MsgValues
ReturnTypeDecls(n) == [1..n -> BOOLEAN]   \* TRUE: the call declares return types

SigAggregateCalls == "aggregateCalls((address,bytes,uint256)[])"
SigTryAggregateCalls == "tryAggregateCalls((address,bytes,uint256)[],bool)"
SigTryAggregateCalls3 == "tryAggregateCalls((address,bytes,uint256,bool)[])"
SigSimulateCalls == "simulateCalls((address,bytes)[])"
SigAggregateStatic == "aggregateStatic((address,bytes)[])"
SigTryAggregateStatic == "tryAggregateStatic((address,bytes)[],bool)"
SigTryAggregateStatic3 == "tryAggregateStatic((address,bytes,bool)[])"

ArrayTypes == {"bytes[]", "(bool,bytes)[]", "uint256[]"}

ChainDataTypes == <<"uint256", "uint256", "bytes32", "uint256", "address", "uint256",
                    "uint256", "uint256", "uint256">>

MkArgs(e, n, rt, isCall, rs, bn, v) ==
    [entry |-> e, n |-> n, rt |-> rt, isCall |-> isCall, requireSuccess |-> rs,
     blockNumber |-> bn, value |-> v]

MkFr(fn, sig, types, rs, isSim, withValue, mc3, hasAddr) ==
    [fn |-> fn, funcSignature |-> sig, txReturnTypes |-> types, requireSuccess |-> rs,
     isSimulation |-> isSim, withValue |-> withValue, isMultiCall3Type |-> mc3,
     hasAddresses |-> hasAddr]

\* The entry point calls into the engine.
Enter(a, f) ==
    /\ args' = a
    /\ fr' = f
    /\ pc' = f.fn
    /\ loc' = InitLoc
    /\ netlog' = <<>>
    /\ result' = NoResult
    /\ UNCHANGED <<mc, bytecode, abort>>

\* The entry point returns a Result itself.
ReturnNow(a, res) ==
    /\ args' = a
    /\ fr' = InitFr
    /\ pc' = "returned"
    /\ loc' = InitLoc
    /\ netlog' = <<>>
    /\ result' = res
    /\ UNCHANGED <<mc, bytecode, abort>>

\* A running function returns a Result.
Ret(res) ==
    /\ result' = res
    /\ pc' = "returned"

\* A runtime panic ends the process.
Panic(reason) ==
    /\ abort' = reason
    /\ pc' = "aborted"

ErrResult(e) == MkResult(FALSE, VList(<<>>), e, EmptyTxOrCall)

----------------------------------------------------------------------------
\* multicall.go

\* Mutant: the bytecode's length is not looked at.
NewMultiCall_alwaysDeployed ==
    /\ pc = "idle"
    /\ ~mc.constructed
    /\ \E signer \in {"nil", "set"}, codeErr \in BOOLEAN, len \in {0, 1} :
        IF codeErr
        THEN UNCHANGED vars
        ELSE /\ bytecode' = len
             /\ mc' = [constructed |-> TRUE, ContractAddress |-> "addr", Signer |-> signer]
             /\ UNCHANGED <<pc, args, fr, loc, netlog, result, abort>>

NewMultiCall ==
    /\ pc = "idle"
    /\ ~mc.constructed
    /\ \E signer \in {"nil", "set"}, codeErr \in BOOLEAN, len \in {0, 1} :
        IF codeErr
        THEN UNCHANGED vars
        ELSE /\ bytecode' = len
             /\ mc' = [constructed |-> TRUE,
                       ContractAddress |-> IF len = 0 THEN "nil" ELSE "addr",
                       Signer |-> signer]
             /\ UNCHANGED <<pc, args, fr, loc, netlog, result, abort>>

\* The shared body of AggregateCalls, TryAggregateCalls and TryAggregateCalls3.
MutatingEntry(a, sig, types, rs) ==
    IF mc.Signer = "nil" /\ ~a.isCall
    THEN ReturnNow(a, ErrResult(Err("no signer configured", "")))
    ELSE IF mc.ContractAddress = "nil"
    THEN ReturnNow(a, ErrResult(Err("no multicall contract on this chain", "")))
    ELSE IF a.isCall
    THEN Enter(a, MkFr("asRead", sig, types, rs, FALSE, FALSE, FALSE, FALSE))
    ELSE Enter(a, MkFr("write", sig, types, rs, FALSE, TRUE, FALSE, FALSE))

AggregateCalls ==
    /\ pc = "idle"
    /\ mc.constructed
    /\ \E n \in 0..MaxCalls, isCall \in BOOLEAN, bn \in BlockNumbers :
       \E rt \in ReturnTypeDecls(n), v \in TotalValues(n) :
        MutatingEntry(MkArgs("AggregateCalls", n, rt, isCall, FALSE, bn, v),
                      SigAggregateCalls, <<"bytes[]">>, FALSE)

TryAggregateCalls ==
    /\ pc = "idle"
    /\ mc.constructed
    /\ \E n \in 0..MaxCalls, isCall \in BOOLEAN, rs \in BOOLEAN, bn \in BlockNumbers :
       \E rt \in ReturnTypeDecls(n), v \in TotalValues(n) :
        MutatingEntry(MkArgs("TryAggregateCalls", n, rt, isCall, rs, bn, v),
                      SigTryAggregateCalls, <<"(bool,bytes)[]">>, rs)

TryAggregateCalls3 ==
    /\ pc = "idle"
    /\ mc.constructed
    /\ \E n \in 0..MaxCalls, isCall \in BOOLEAN, bn \in BlockNumbers :
       \E rt \in ReturnTypeDecls(n), v \in TotalValues(n) :
        MutatingEntry(MkArgs("TryAggregateCalls3", n, rt, isCall, FALSE, bn, v),
                      SigTryAggregateCalls3, <<"(bool,bytes)[]">>, FALSE)

\* The shared body of the entry points with a deployless counterpart.
ReadEntry(a, f) ==
    IF mc.ContractAddress = "nil"
    THEN Enter(a, MkFr("deployless", "", <<>>, a.requireSuccess, FALSE, FALSE, FALSE, FALSE))
    ELSE Enter(a, f)

SimulateCall ==
    /\ pc = "idle"
    /\ mc.constructed
    /\ \E n \in 0..MaxCalls, bn \in BlockNumbers :
       \E rt \in ReturnTypeDecls(n) :
        ReadEntry(MkArgs("SimulateCall", n, rt, FALSE, FALSE, bn, 0),
                  MkFr("read", SigSimulateCalls, <<>>, FALSE, TRUE, FALSE, FALSE, FALSE))

AggregateStatic ==
    /\ pc = "idle"
    /\ mc.constructed
    /\ \E n \in 0..MaxCalls, bn \in BlockNumbers :
       \E rt \in ReturnTypeDecls(n) :
        ReadEntry(MkArgs("AggregateStatic", n, rt, FALSE, FALSE, bn, 0),
                  MkFr("read", SigAggregateStatic, <<"bytes[]">>, FALSE, FALSE, FALSE,
                       FALSE, FALSE))

TryAggregateStatic ==
    /\ pc = "idle"
    /\ mc.constructed
    /\ \E n \in 0..MaxCalls, rs \in BOOLEAN, bn \in BlockNumbers :
       \E rt \in ReturnTypeDecls(n) :
        ReadEntry(MkArgs("TryAggregateStatic", n, rt, FALSE, rs, bn, 0),
                  MkFr("read", SigTryAggregateStatic, <<"(bool,bytes)[]">>, rs, FALSE,
                       FALSE, FALSE, FALSE))

TryAggregateStatic3 ==
    /\ pc = "idle"
    /\ mc.constructed
    /\ \E n \in 0..MaxCalls, bn \in BlockNumbers :
       \E rt \in ReturnTypeDecls(n) :
        ReadEntry(MkArgs("TryAggregateStatic3", n, rt, FALSE, FALSE, bn, 0),
                  MkFr("read", SigTryAggregateStatic3, <<"(bool,bytes)[]">>, FALSE, FALSE,
                       FALSE, FALSE, FALSE))

NoTypes(n) == [i \in 1..n |-> FALSE]

CodeLengths ==
    /\ pc = "idle"
    /\ mc.constructed
    /\ \E n \in 0..MaxCalls, bn \in BlockNumbers :
        ReadEntry(MkArgs("CodeLengths", n, NoTypes(n), FALSE, FALSE, bn, 0),
                  MkFr("getData", "getCodeLengths(address[])", <<"uint256[]">>, FALSE,
                       FALSE, FALSE, FALSE, TRUE))

Balances ==
    /\ pc = "idle"
    /\ mc.constructed
    /\ \E n \in 0..MaxCalls, bn \in BlockNumbers :
        ReadEntry(MkArgs("Balances", n, NoTypes(n), FALSE, FALSE, bn, 0),
                  MkFr("getData", "getBalances(address[])", <<"uint256[]">>, FALSE,
                       FALSE, FALSE, FALSE, TRUE))

AddressesData ==
    /\ pc = "idle"
    /\ mc.constructed
    /\ \E n \in 0..MaxCalls, bn \in BlockNumbers :
        ReadEntry(MkArgs("AddressesData", n, NoTypes(n), FALSE, FALSE, bn, 0),
                  MkFr("getData", "getAddressesData(address[])",
                       <<"uint256[]", "uint256[]">>, FALSE, FALSE, FALSE, FALSE, TRUE))

ChainData ==
    /\ pc = "idle"
    /\ mc.constructed
    /\ \E bn \in BlockNumbers :
        ReadEntry(MkArgs("ChainData", 0, <<>>, FALSE, FALSE, bn, 0),
                  MkFr("getData", "getChainData()", ChainDataTypes, FALSE, FALSE, FALSE,
                       FALSE, FALSE))

----------------------------------------------------------------------------
\* Collaborators of the engine: call-set serialization, ABI codec, transport.

\* calls.ToArray(withValue, isMultiCall3Type): a malformed element (only a
\* non-empty call set has one) is an error; else the tuple array, described
\* by its shape, and the total value to attach.
ToArray(a, withValue, isMultiCall3Type, malformed) ==
    [err |-> IF malformed /\ a.n > 0 THEN Err("toArray", "") ELSE NilErr,
     n |-> a.n,
     withValue |-> withValue,
     failureShape |-> isMultiCall3Type,
     msgValue |-> IF withValue THEN a.value ELSE 0]

\* abi.EncodeWithSignature(funcSignature, arrayfiedCalls[, requireSuccess]);
\* rs is "none" when the scalar is not passed.
EncodeWithSignature(funcSignature, arr, rs) ==
    [sig |-> funcSignature, n |-> arr.n, withValue |-> arr.withValue,
     failureShape |-> arr.failureShape, rs |-> rs]

BoolArg(b) == IF b THEN "true" ELSE "false"

TransportErrs == {"none", "execution reverted", "other"}

\* The arrays a response can carry for an outer return schema: any length,
\* at most one slot whose bytes do not decode against declared types.
SlotArrays(types, k) ==
    IF types = <<"bytes[]">>
    THEN { [i \in 1..k |-> VBytes(i, i # bad)] : bad \in 0..k }
    ELSE IF types = <<"(bool,bytes)[]">>
    THEN { [i \in 1..k |-> VList(<<VBool(s[i]),
                                   IF s[i] THEN VBytes(i, i # bad) ELSE VBytes(0, TRUE)>>)] :
             s \in [1..k -> BOOLEAN], bad \in 0..k }
    ELSE { [i \in 1..k |-> VUint(i)] }

\* encodedCallResult: bytes that match the outer schema (ok) and carry arr, or do not.
Responses(types) ==
    {[ok |-> FALSE, arr |-> <<>>]} \cup
    { [ok |-> TRUE, arr |-> a] : a \in UNION { SlotArrays(types, k) : k \in 0..MaxCalls } }

\* The revert payloads of simulateCalls: (success, returnData, gasUsed) triples.
RevertPayloads ==
    UNION { { [i \in 1..k |-> VList(<<VBool(s[i]), VBytes(i, TRUE), VUint(i)>>)] :
              s \in [1..k -> BOOLEAN] } : k \in 0..MaxCalls }

\* abi.Decode(types, encoded): one decoded element per type of the list.
Decode(types, enc) ==
    IF ~enc.ok
    THEN [err |-> Err("decode", ""), val |-> <<>>]
    ELSE [err |-> NilErr,
          val |-> [i \in 1..Len(types) |->
                     IF types[i] \in ArrayTypes THEN VList(enc.arr) ELSE VUint(i)]]

\* fmt.Errorf("...: %w", err)
Wrap(m, e) == Err(m, IF e.isNil THEN "%!w(<nil>)" ELSE e.msg)

----------------------------------------------------------------------------
\* The result reconciler.

\* for len(decodedCallResult) != calls.Len() { decodedCallResult = decodedCallResult[0].([]any) }
RECURSIVE Unwrap(_, _)
Unwrap(d, n) ==
    IF Len(d) = n THEN [panic |-> "", val |-> d]
    ELSE IF Len(d) = 0 THEN [panic |-> "index out of range", val |-> d]
    ELSE IF d[1].t # "list" THEN [panic |-> "interface conversion", val |-> d]
    ELSE Unwrap(d[1].items, n)

RECURSIVE decodeSlots(_, _, _, _)
decodeSlots(res, rt, i, acc) ==
    IF i > Len(res) THEN [panic |-> "", err |-> NilErr, val |-> acc]
    ELSE IF rt[i]
    THEN IF res[i].t = "bytes"
         THEN IF res[i].ty = 0
              THEN [panic |-> "", err |-> Err("decode", ""), val |-> <<>>]
              ELSE decodeSlots(res, rt, i + 1, Append(acc, VList(<<VVal(res[i].id, i)>>)))
         ELSE IF res[i].t = "list"
         THEN decodeSlots(res, rt, i + 1, Append(acc, res[i]))
         ELSE [panic |-> "interface conversion", err |-> NilErr, val |-> <<>>]
    ELSE IF res[i].t = "list"
    THEN decodeSlots(res, rt, i + 1, Append(acc, res[i]))
    ELSE [panic |-> "interface conversion", err |-> NilErr, val |-> <<>>]

decodeAggregateCallsResult(res, rt) == decodeSlots(res, rt, 1, <<>>)

parseResults(decodedCallResult, status, callOrTxResult, callOrTx) ==
    IF Len(decodedCallResult) > 0
    THEN MkResult(status, VList(decodedCallResult), NilErr, callOrTx)
    ELSE MkResult(status, callOrTxResult, NilErr, callOrTx)

----------------------------------------------------------------------------
\* write: the mutating path.

\* One request to the transport client or the signer, and whether it succeeded.
Request(op, msg, ok) == [op |-> op, msg |-> msg, ok |-> ok]

SignerAddress == "signer"

write ==
    /\ pc = "write"
    /\ \E malformed \in BOOLEAN, encodeErr \in BOOLEAN :
        LET arr == ToArray(args, fr.withValue, fr.isMultiCall3Type, malformed)
            callData == IF fr.funcSignature = SigTryAggregateCalls
                        THEN EncodeWithSignature(fr.funcSignature, arr,
                                                 BoolArg(fr.requireSuccess))
                        ELSE EncodeWithSignature(fr.funcSignature, arr, "none")
        IN  IF ~arr.err.isNil
            THEN Ret(ErrResult(arr.err)) /\ UNCHANGED loc
            ELSE IF encodeErr
            THEN Ret(ErrResult(Err("encode", ""))) /\ UNCHANGED loc
            ELSE /\ loc' = [loc EXCEPT !.callData = callData, !.msgValue = arr.msgValue]
                 /\ pc' = "write_createTransaction"
                 /\ UNCHANGED result
    /\ UNCHANGED <<mc, bytecode, args, fr, netlog, abort>>

write_createTransaction ==
    /\ pc = "write_createTransaction"
    /\ LET tx == [from |-> SignerAddress, to |-> mc.ContractAddress, data |-> loc.callData,
                  value |-> loc.msgValue, block |-> "nil"]
       IN  \E failed \in BOOLEAN :
             /\ netlog' = Append(netlog, Request("createTransaction", tx, ~failed))
             /\ IF failed
                THEN /\ Ret(MkResult(FALSE, VList(<<>>), Err("createTransaction", ""),
                                     FromTxToTxOrCall(NoCallMsg, SignerAddress, "nil")))
                     /\ UNCHANGED loc
                ELSE /\ loc' = [loc EXCEPT !.tx = tx]
                     /\ pc' = "write_ChainID"
                     /\ UNCHANGED result
    /\ UNCHANGED <<mc, bytecode, args, fr, abort>>

write_ChainID ==
    /\ pc = "write_ChainID"
    /\ \E failed \in BOOLEAN :
        /\ netlog' = Append(netlog, Request("ChainID", NoCallMsg, ~failed))
        /\ IF failed
           THEN Ret(MkResult(FALSE, VList(<<>>), Err("chainId", ""),
                             FromTxToTxOrCall(loc.tx, SignerAddress, "nil")))
           ELSE pc' = "write_SignTx" /\ UNCHANGED result
    /\ UNCHANGED <<mc, bytecode, args, fr, loc, abort>>

write_SignTx ==
    /\ pc = "write_SignTx"
    /\ \E failed \in BOOLEAN :
        /\ netlog' = Append(netlog, Request("SignTx", loc.tx, ~failed))
        /\ IF failed
           THEN /\ Ret(MkResult(FALSE, VList(<<>>), Err("signTx", ""),
                                FromTxToTxOrCall(loc.tx, SignerAddress, "nil")))
                /\ UNCHANGED loc
           ELSE /\ loc' = [loc EXCEPT !.signed = TRUE]
                /\ pc' = "write_CallContract"
                /\ UNCHANGED result
    /\ UNCHANGED <<mc, bytecode, args, fr, abort>>

\* Mutant: the dry run's error is not checked before the broadcast.
write_CallContract_unchecked ==
    /\ pc = "write_CallContract"
    /\ \E e \in TransportErrs, enc \in Responses(fr.txReturnTypes) :
        LET msg == [from |-> SignerAddress, to |-> mc.ContractAddress,
                    data |-> loc.callData, value |-> 0, block |-> "nil"]
        IN  /\ netlog' = Append(netlog, Request("CallContract", msg, e = "none"))
            /\ loc' = [loc EXCEPT !.enc = enc,
                                  !.err = IF e = "none" THEN NilErr ELSE Err(e, "")]
            /\ pc' = "write_sendSignedTransaction"
    /\ UNCHANGED <<mc, bytecode, args, fr, result, abort>>

\* The dry run.  The CallMsg sets From, To and Data only.
write_CallContract ==
    /\ pc = "write_CallContract"
    /\ \E e \in TransportErrs, enc \in Responses(fr.txReturnTypes) :
        LET msg == [from |-> SignerAddress, to |-> mc.ContractAddress,
                    data |-> loc.callData, value |-> 0, block |-> "nil"]
        IN  /\ netlog' = Append(netlog, Request("CallContract", msg, e = "none"))
            /\ IF e # "none"
               THEN /\ loc' = [loc EXCEPT !.err = Err(e, "")]
                    /\ pc' = "write_BlockNumber"
               ELSE /\ loc' = [loc EXCEPT !.enc = enc]
                    /\ pc' = "write_sendSignedTransaction"
    /\ UNCHANGED <<mc, bytecode, args, fr, result, abort>>

\* Mutant: after the block-number lookup the function falls through to the broadcast.
write_BlockNumber_fallthrough ==
    /\ pc = "write_BlockNumber"
    /\ \E failed \in BOOLEAN :
        /\ netlog' = Append(netlog, Request("BlockNumber", NoCallMsg, ~failed))
        /\ pc' = "write_sendSignedTransaction"
    /\ UNCHANGED <<mc, bytecode, args, fr, loc, result, abort>>

\* The dry run failed.  The lookup's err shadows the dry run's err.
write_BlockNumber ==
    /\ pc = "write_BlockNumber"
    /\ \E failed \in BOOLEAN :
        LET err == IF failed THEN Err("blockNumber", "") ELSE NilErr
        IN  /\ netlog' = Append(netlog, Request("BlockNumber", NoCallMsg, ~failed))
            /\ IF ~err.isNil
               THEN Ret(MkResult(FALSE, VList(<<>>), err,
                                 FromTxToTxOrCall(loc.tx, SignerAddress, "nil")))
               ELSE Ret(MkResult(FALSE, VList(<<>>), Wrap("error calling contract", err),
                                 FromTxToTxOrCall(loc.tx, SignerAddress, "latest")))
    /\ UNCHANGED <<mc, bytecode, args, fr, loc, abort>>

\* The broadcast, then the decode of the dry run's response.
write_sendSignedTransaction ==
    /\ pc = "write_sendSignedTransaction"
    /\ \E failed \in BOOLEAN, receiptNil \in BOOLEAN, status \in {0, 1} :
        LET decoded == Decode(fr.txReturnTypes, loc.enc)
        IN  /\ netlog' = Append(netlog, Request("sendSignedTransaction", loc.tx, ~failed))
            /\ IF failed
               THEN IF receiptNil
                    THEN Panic("nil pointer dereference") /\ UNCHANGED result
                    ELSE /\ Ret(MkResult(FALSE, VList(<<>>),
                                         Wrap("error sending signed transaction",
                                              Err("send", "")),
                                         FromTxToTxOrCall(loc.tx, SignerAddress, "receipt")))
                         /\ UNCHANGED abort
               ELSE IF ~decoded.err.isNil
               THEN /\ Ret(MkResult(FALSE, VList(<<>>),
                                    Wrap("error decoding call result", decoded.err),
                                    FromTxToTxOrCall(loc.tx, SignerAddress, "receipt")))
                    /\ UNCHANGED abort
               ELSE /\ Ret(parseResults(decoded.val, status = 1, VReceipt(status),
                                        FromTxToTxOrCall(loc.tx, SignerAddress, "receipt")))
                    /\ UNCHANGED abort
    /\ UNCHANGED <<mc, bytecode, args, fr, loc>>

----------------------------------------------------------------------------
\* asRead, read and makeCall: the stateless paths.

ZERO_ADDRESS == "zero"

asRead ==
    /\ pc = "asRead"
    /\ \E malformed \in BOOLEAN, encodeErr \in BOOLEAN :
        LET arr == ToArray(args, TRUE, FALSE, malformed)
            callData == IF fr.funcSignature = SigTryAggregateCalls
                        THEN EncodeWithSignature(fr.funcSignature, arr,
                                                 BoolArg(fr.requireSuccess))
                        ELSE EncodeWithSignature(fr.funcSignature, arr, "none")
        IN  IF ~arr.err.isNil
            THEN Ret(ErrResult(arr.err)) /\ UNCHANGED loc
            ELSE IF encodeErr
            THEN Ret(ErrResult(Err("encode", ""))) /\ UNCHANGED loc
            ELSE /\ loc' = [loc EXCEPT !.callData = callData, !.isSimulation = FALSE]
                 /\ pc' = "makeCall"
                 /\ UNCHANGED result
    /\ UNCHANGED <<mc, bytecode, args, fr, netlog, abort>>

\* read with the scalar never passed to the encoder.
read_arrayOnly ==
    /\ pc = "read"
    /\ \E malformed \in BOOLEAN, encodeErr \in BOOLEAN :
        LET arr == ToArray(args, FALSE, FALSE, malformed)
            isSimulation == IF fr.funcSignature = SigTryAggregateStatic3
                               \/ fr.funcSignature = SigTryAggregateStatic
                            THEN FALSE
                            ELSE fr.isSimulation
            callData == EncodeWithSignature(fr.funcSignature, arr, "none")
        IN  IF ~arr.err.isNil
            THEN Ret(ErrResult(arr.err)) /\ UNCHANGED loc
            ELSE IF encodeErr
            THEN Ret(ErrResult(Err("encode", ""))) /\ UNCHANGED loc
            ELSE /\ loc' = [loc EXCEPT !.callData = callData,
                                       !.isSimulation = isSimulation]
                 /\ pc' = "makeCall"
                 /\ UNCHANGED result
    /\ UNCHANGED <<mc, bytecode, args, fr, netlog, abort>>

read ==
    /\ pc = "read"
    /\ \E malformed \in BOOLEAN, encodeErr \in BOOLEAN :
        LET arr == ToArray(args, FALSE, FALSE, malformed)
            isSimulation == IF fr.funcSignature = SigTryAggregateStatic3
                               \/ fr.funcSignature = SigTryAggregateStatic
                            THEN FALSE
                            ELSE fr.isSimulation
            callData == IF fr.funcSignature = SigTryAggregateStatic
                        THEN EncodeWithSignature(fr.funcSignature, arr,
                                                 BoolArg(fr.requireSuccess))
                        ELSE EncodeWithSignature(fr.funcSignature, arr, "none")
        IN  IF ~arr.err.isNil
            THEN Ret(ErrResult(arr.err)) /\ UNCHANGED loc
            ELSE IF encodeErr
            THEN Ret(ErrResult(Err("encode", ""))) /\ UNCHANGED loc
            ELSE /\ loc' = [loc EXCEPT !.callData = callData,
                                       !.isSimulation = isSimulation]
                 /\ pc' = "makeCall"
                 /\ UNCHANGED result
    /\ UNCHANGED <<mc, bytecode, args, fr, netlog, abort>>

\* What asRead and read do with makeCall's return values.
readReturn(decodedCallResult, decodedAggregatedCallsResultVar, call, err) ==
    IF ~err.isNil
    THEN Ret(MkResult(FALSE, VList(<<>>), err, call))
    ELSE Ret(parseResults(decodedAggregatedCallsResultVar, TRUE, VList(decodedCallResult),
                          call))

\* The "execution reverted" branch of makeCall: decodedCallResult and err are
\* declared anew inside the if block; [err, inner] is what the block leaves.
simulationRevert(payload, decodes) ==
    IF ~decodes
    THEN [err |-> Err("revertDecode", ""), inner |-> <<>>]
    ELSE LET decodedCallResult == <<VList(payload)>>
             unwrapped == decodedCallResult[1].items
         IN  [err |-> NilErr,
              inner |-> [i \in 1..Len(unwrapped) |->
                           VList([unwrapped[i].items EXCEPT
                                    ![2] = VHex(unwrapped[i].items[2].id)])]]

makeCall ==
    /\ pc = "makeCall"
    /\ \E e \in TransportErrs,
          enc \in IF loc.isSimulation THEN {NoEnc} ELSE Responses(fr.txReturnTypes),
          ok \in IF loc.isSimulation THEN BOOLEAN ELSE {FALSE},
          decodes \in IF loc.isSimulation THEN BOOLEAN ELSE {TRUE},
          payload \in IF loc.isSimulation THEN RevertPayloads ELSE {<<>>} :
        LET call == [from |-> ZERO_ADDRESS, to |-> mc.ContractAddress,
                     data |-> loc.callData, value |-> 0, block |-> args.blockNumber]
            encodedCallResult == IF e = "none" THEN enc ELSE NoEnc
            err == IF e = "none" THEN NilErr ELSE Err(e, "")
            parsed == loc.isSimulation /\ e = "execution reverted" /\ ok
            rev == IF parsed
                   THEN simulationRevert(payload, decodes)
                   ELSE [err |-> NilErr, inner |-> <<>>]
            \* the function-scope decodedCallResult: nil unless abi.Decode sets it
            outer == IF loc.isSimulation
                     THEN [err |-> NilErr, val |-> <<>>]
                     ELSE Decode(fr.txReturnTypes, encodedCallResult)
            u == Unwrap(outer.val, args.n)
            agg == decodeAggregateCallsResult(u.val, args.rt)
            seen == [loc EXCEPT !.call = call, !.enc = encodedCallResult, !.err = err,
                                !.inner = rev.inner,
                                !.revert = IF ~loc.isSimulation \/ e # "execution reverted"
                                           THEN "none"
                                           ELSE IF ~ok THEN "unparsed"
                                           ELSE IF ~rev.err.isNil THEN "undecodable"
                                           ELSE "decoded"]
            done == [seen EXCEPT !.dec = u.val, !.agg = agg.val]
        IN
         /\ netlog' = Append(netlog, Request("readContract", call, err.isNil))
         /\ IF ~err.isNil /\ ~loc.isSimulation
            THEN /\ readReturn(<<>>, <<>>, EmptyTxOrCall, err)
                 /\ loc' = seen
                 /\ UNCHANGED abort
            ELSE IF loc.isSimulation /\ err.isNil
            THEN /\ Panic("nil pointer dereference")
                 /\ loc' = seen
                 /\ UNCHANGED result
            ELSE IF ~rev.err.isNil
            THEN /\ readReturn(<<>>, <<>>, EmptyTxOrCall, rev.err)
                 /\ loc' = seen
                 /\ UNCHANGED abort
            ELSE IF ~outer.err.isNil
            THEN /\ readReturn(<<>>, <<>>, EmptyTxOrCall, outer.err)
                 /\ loc' = seen
                 /\ UNCHANGED abort
            ELSE IF u.panic # ""
            THEN /\ Panic(u.panic)
                 /\ loc' = seen
                 /\ UNCHANGED result
            ELSE IF agg.panic # ""
            THEN /\ Panic(agg.panic)
                 /\ loc' = seen
                 /\ UNCHANGED result
            ELSE IF ~agg.err.isNil
            THEN /\ readReturn(<<>>, <<>>, EmptyTxOrCall, agg.err)
                 /\ loc' = seen
                 /\ UNCHANGED abort
            ELSE IF args.blockNumber = "nil"
            THEN /\ loc' = done
                 /\ pc' = "makeCall_BlockNumber"
                 /\ UNCHANGED <<result, abort>>
            ELSE /\ readReturn(u.val, agg.val,
                               FromCallToTxOrCall(call, args.blockNumber), NilErr)
                 /\ loc' = done
                 /\ UNCHANGED abort
    /\ UNCHANGED <<mc, bytecode, args, fr>>

makeCall_BlockNumber ==
    /\ pc = "makeCall_BlockNumber"
    /\ \E failed \in BOOLEAN :
        /\ netlog' = Append(netlog, Request("BlockNumber", NoCallMsg, ~failed))
        /\ IF failed
           THEN readReturn(<<>>, <<>>, EmptyTxOrCall, Err("blockNumber", ""))
           ELSE readReturn(loc.dec, loc.agg, FromCallToTxOrCall(loc.call, "latest"),
                           NilErr)
    /\ UNCHANGED <<mc, bytecode, args, fr, loc, abort>>

----------------------------------------------------------------------------
\* getData: the metadata reads.

getData ==
    /\ pc = "getData"
    /\ \E encodeErr \in BOOLEAN, e \in TransportErrs, enc \in Responses(fr.txReturnTypes) :
        LET call == [from |-> ZERO_ADDRESS, to |-> mc.ContractAddress,
                     data |-> [sig |-> fr.funcSignature,
                               n |-> IF fr.hasAddresses THEN args.n ELSE 0,
                               withValue |-> FALSE, failureShape |-> FALSE, rs |-> "none"],
                     value |-> 0, block |-> args.blockNumber]
            decoded == Decode(fr.txReturnTypes, enc)
        IN  IF encodeErr
            THEN Ret(ErrResult(Err("encode", ""))) /\ UNCHANGED <<loc, netlog>>
            ELSE /\ netlog' = Append(netlog, Request("readContract", call, e = "none"))
                 /\ IF e # "none"
                    THEN /\ Ret(MkResult(FALSE, VList(<<>>), Err(e, ""),
                                         FromCallToTxOrCall(call, args.blockNumber)))
                         /\ loc' = [loc EXCEPT !.call = call, !.err = Err(e, "")]
                    ELSE IF ~decoded.err.isNil
                    THEN /\ Ret(MkResult(FALSE, VList(<<>>), decoded.err,
                                         FromCallToTxOrCall(call, args.blockNumber)))
                         /\ UNCHANGED loc
                    ELSE IF args.blockNumber = "nil"
                    THEN /\ loc' = [loc EXCEPT !.dec = decoded.val, !.call = call]
                         /\ pc' = "getData_BlockNumber"
                         /\ UNCHANGED result
                    ELSE /\ Ret(MkResult(TRUE, VList(decoded.val), NilErr,
                                         FromCallToTxOrCall(call, args.blockNumber)))
                         /\ UNCHANGED loc
    /\ UNCHANGED <<mc, bytecode, args, fr, abort>>

getData_BlockNumber ==
    /\ pc = "getData_BlockNumber"
    /\ \E failed \in BOOLEAN :
        /\ netlog' = Append(netlog, Request("BlockNumber", NoCallMsg, ~failed))
        /\ IF failed
           THEN Ret(MkResult(FALSE, VList(<<>>), Err("blockNumber", ""),
                             FromCallToTxOrCall(loc.call, "nil")))
           ELSE Ret(MkResult(TRUE, VList(loc.dec), NilErr,
                             FromCallToTxOrCall(loc.call, "latest")))
    /\ UNCHANGED <<mc, bytecode, args, fr, loc, abort>>

----------------------------------------------------------------------------
\* The deployless fallback: the same Result shape without a batching contract.

deployless ==
    /\ pc = "deployless"
    /\ \E failed \in BOOLEAN :
        LET call == [kind |-> "call", from |-> ZERO_ADDRESS, block |-> args.blockNumber]
        IN  /\ netlog' = Append(netlog, Request("deployless", NoCallMsg, ~failed))
            /\ IF failed
               THEN Ret(MkResult(FALSE, VList(<<>>), Err("deployless", ""), call))
               ELSE Ret(MkResult(TRUE, VList([i \in 1..args.n |-> VList(<<VVal(i, i)>>)]),
                                 NilErr, call))
    /\ UNCHANGED <<mc, bytecode, args, fr, loc, abort>>

\* The caller takes the Result; the invocation's frame is gone.
ReturnToCaller ==
    /\ pc = "returned"
    /\ pc' = "idle"
    /\ args' = InitArgs
    /\ fr' = InitFr
    /\ loc' = InitLoc
    /\ netlog' = <<>>
    /\ result' = NoResult
    /\ UNCHANGED <<mc, bytecode, abort>>

Next ==
    \/ NewMultiCall
    \/ AggregateCalls
    \/ TryAggregateCalls
    \/ TryAggregateCalls3
    \/ SimulateCall
    \/ AggregateStatic
    \/ TryAggregateStatic
    \/ TryAggregateStatic3
    \/ CodeLengths
    \/ Balances
    \/ AddressesData
    \/ ChainData
    \/ write
    \/ write_createTransaction
    \/ write_ChainID
    \/ write_SignTx
    \/ write_CallContract
    \/ write_BlockNumber
    \/ write_sendSignedTransaction
    \/ asRead
    \/ read
    \/ makeCall
    \/ makeCall_BlockNumber
    \/ getData
    \/ getData_BlockNumber
    \/ deployless
    \/ ReturnToCaller

Spec == Init /\ [][Next]_vars

----------------------------------------------------------------------------
\* Properties.

Ops == { netlog[i].op : i \in 1..Len(netlog) }
Count(op) == Cardinality({ i \in 1..Len(netlog) : netlog[i].op = op })
\* Requests to the transport client (the signer's SignTx is not one).
NetCount == Cardinality({ i \in 1..Len(netlog) : netlog[i].op # "SignTx" })

MutatingEntries == {"AggregateCalls", "TryAggregateCalls", "TryAggregateCalls3"}
DeploylessEntries == {"SimulateCall", "AggregateStatic", "TryAggregateStatic",
                      "TryAggregateStatic3", "CodeLengths", "Balances", "AddressesData",
                      "ChainData"}
PerCallEntries == MutatingEntries \cup {"SimulateCall", "AggregateStatic",
                                        "TryAggregateStatic", "TryAggregateStatic3"}

Returned == pc = "returned" /\ result.set
ReturnedOk == Returned /\ result.Error.isNil

\* The response carries one slot per submitted call, in call order, and every
\* byte string in it decodes against the types its call declares.
SlotBytes(v) == IF v.t = "bytes" THEN v ELSE v.items[2]
HonestResponse ==
    /\ loc.enc.ok
    /\ Len(loc.enc.arr) = args.n
    /\ \A i \in 1..args.n : SlotBytes(loc.enc.arr[i]).ty = 1
AllTyped == \A i \in 1..args.n : args.rt[i]

\* C1: in write, sendSignedTransaction is requested only after the dry-run
\* CallContract of the same invocation succeeded, with every earlier request
\* (createTransaction, ChainID, SignTx) successful; once one of them or the
\* dry run has failed, the invocation never broadcasts.
C1_BroadcastOnlyAfterDryRun ==
    /\ \A i \in 1..Len(netlog) :
        netlog[i].op = "sendSignedTransaction" =>
            /\ \E j \in 1..(i - 1) : netlog[j].op = "CallContract" /\ netlog[j].ok
            /\ \A j \in 1..(i - 1) : netlog[j].ok
    /\ (\E j \in 1..Len(netlog) :
            /\ netlog[j].op \in {"createTransaction", "ChainID", "SignTx", "CallContract"}
            /\ ~netlog[j].ok)
        => "sendSignedTransaction" \notin Ops

C1_Witness ==
    /\ Returned
    /\ fr.fn = "write"
    /\ "sendSignedTransaction" \in Ops

\* C9: ContractAddress is nil iff the bytecode NewMultiCall read was empty, in
\* every state after construction; an entry point with a deployless
\* counterpart runs the deployless path iff ContractAddress is nil; a mutating
\* entry point called without a contract, or without a signer when isCall is
\* false, has returned an error Result and made no request.
C9_DeploymentMode ==
    mc.constructed =>
        /\ (mc.ContractAddress = "nil") <=> (bytecode = 0)
        /\ args.entry \in DeploylessEntries =>
            /\ (fr.fn = "deployless") <=> (mc.ContractAddress = "nil")
            /\ mc.ContractAddress # "nil" => fr.fn \in {"read", "getData"}
        /\ (/\ args.entry \in MutatingEntries
            /\ \/ mc.ContractAddress = "nil"
               \/ mc.Signer = "nil" /\ ~args.isCall)
            => /\ Returned
               /\ ~result.Success
               /\ ~result.Error.isNil
               /\ netlog = <<>>

C9_Witness ==
    /\ mc.constructed
    /\ bytecode = 0
    /\ args.entry = "AggregateStatic"
    /\ fr.fn = "deployless"
    /\ Returned

\* The value the i-th call's return data decodes to against its own types.
DecodedSlot(i) == VList(<<VVal(i, i)>>)

\* C2: a Result returned without error by an entry point that produces
\* per-call structure has a payload list of exactly C.Len() elements.
C2_PayloadLength ==
    (ReturnedOk /\ args.entry \in PerCallEntries) =>
        /\ result.Result.t = "list"
        /\ Len(result.Result.items) = args.n

\* C3: AggregateStatic on the batching contract, N >= 1 calls that all declare
\* return types, a response of N byte strings: slot i of the payload is the
\* i-th byte string decoded against the i-th call's return types.
C3_StaticAggregateDecoded ==
    (/\ ReturnedOk
     /\ args.entry = "AggregateStatic"
     /\ fr.fn = "read"
     /\ args.n >= 1
     /\ AllTyped
     /\ HonestResponse)
    => /\ Len(result.Result.items) = args.n
       /\ \A i \in 1..args.n : result.Result.items[i] = DecodedSlot(i)

\* C4: TryAggregateStatic and TryAggregateStatic3 on the batching contract,
\* calls that all declare return types, a response of N (success, bytes)
\* pairs: slot i is (true, return data decoded against call i's types) for a
\* successful call and (false, empty) for a reverted one.
C4_TryAggregateDecoded ==
    (/\ ReturnedOk
     /\ args.entry \in {"TryAggregateStatic", "TryAggregateStatic3"}
     /\ fr.fn = "read"
     /\ args.n >= 1
     /\ AllTyped
     /\ HonestResponse)
    => /\ Len(result.Result.items) = args.n
       /\ \A i \in 1..args.n :
            LET success == loc.enc.arr[i].items[1]
            IN  result.Result.items[i] =
                    IF success.id = 1
                    THEN VList(<<success, DecodedSlot(i)>>)
                    ELSE VList(<<success, VBytes(0, TRUE)>>)

\* C5: SimulateCall on the batching contract with N >= 1 calls, answered by
\* "execution reverted" whose revert data decodes to N triples: the invocation
\* does not abort, and the Result it returns has a nil Error and the N
\* (success, hex, gasUsed) triples as payload.
C5_SimulationRevertIsData ==
    (/\ args.entry = "SimulateCall"
     /\ fr.fn = "read"
     /\ args.n >= 1
     /\ loc.revert = "decoded"
     /\ Len(loc.inner) = args.n)
    => /\ abort = ""
       /\ Returned => /\ result.Error.isNil
                      /\ result.Result = VList(loc.inner)

\* C6: a Result with a non-nil Error carries a populated TxOrCall.
C6_ErrorCarriesTxOrCall ==
    (Returned /\ ~result.Error.isNil) => result.TxOrCall.kind # "empty"

\* C7: no invocation aborts the process, except by the type assertion on the
\* decoded revert payload in simulate mode.  Stated for the transport outcomes
\* the claim lists, a successful response carrying one slot per call.
C7_NoAbort ==
    (abort # "" /\ (loc.isSimulation \/ Len(loc.enc.arr) = args.n))
        => /\ loc.isSimulation
           /\ loc.revert = "decoded"
           /\ abort = "interface conversion"

C10_TransportErrorIsReported ==
    (/\ fr.fn \in {"asRead", "read", "getData"}
     /\ "readContract" \in Ops
     /\ ~loc.err.isNil
     /\ ~(/\ loc.isSimulation
          /\ loc.err.msg = "execution reverted"
          /\ loc.revert = "decoded"))
    => /\ Returned
       /\ ~result.Success
       /\ ~result.Error.isNil

\* The dry run of this invocation failed.
DryRunFailed ==
    \E j \in 1..Len(netlog) : netlog[j].op = "CallContract" /\ ~netlog[j].ok

\* C11: when the dry run of a mutating call fails, the Result has
\* Success = false and an Error that wraps the dry run's own transport error,
\* whether the block-number lookup that follows succeeds or fails.
C11_DryRunErrorReported ==
    (Returned /\ fr.fn = "write" /\ DryRunFailed)
    => /\ ~result.Success
       /\ ~result.Error.isNil
       /\ result.Error.cause = loc.err.msg

\* C12: the dry-run CallMsg has the sender, target, calldata and attached
\* value of the transaction built for the broadcast.
C12_DryRunSameParameters ==
    \A i \in 1..Len(netlog) :
        netlog[i].op = "CallContract" =>
            /\ netlog[i].msg.from = loc.tx.from
            /\ netlog[i].msg.to = loc.tx.to
            /\ netlog[i].msg.data = loc.tx.data
            /\ netlog[i].msg.value = loc.tx.value

\* The dispatch paths that encode a tuple array of calls.
DispatchPaths == {"write", "asRead", "read"}

\* The payload of a dispatch path has been encoded.
Encoded == fr.fn \in DispatchPaths /\ loc.callData.sig # ""

\* C13: on write, asRead and read the requireSuccess scalar is encoded exactly
\* when the signature is tryAggregateCalls((address,bytes,uint256)[],bool).
C13_ScalarOnlyForTryAggregateCalls ==
    Encoded => ((loc.callData.rs # "none") <=> (loc.callData.sig = SigTryAggregateCalls))

\* C13 amended: the requireSuccess scalar is encoded exactly when the
\* signature declares a trailing bool: tryAggregateCalls((address,bytes,
\* uint256)[],bool) on write and asRead, tryAggregateStatic((address,bytes)[],
\* bool) on read; the scalar encoded is the caller's requireSuccess, and every
\* other signature encodes the tuple array alone.
C13_ScalarForTrailingBool ==
    Encoded =>
        /\ (loc.callData.rs # "none")
             <=> \/ fr.fn \in {"write", "asRead"} /\ loc.callData.sig = SigTryAggregateCalls
                 \/ fr.fn = "read" /\ loc.callData.sig = SigTryAggregateStatic
        /\ loc.callData.rs # "none" => loc.callData.rs = BoolArg(args.requireSuccess)
        /\ loc.callData.sig = fr.funcSignature

\* read has encoded tryAggregateStatic((address,bytes)[],bool) with
\* requireSuccess = true.
C13_Witness ==
    /\ fr.fn = "read"
    /\ loc.callData.sig = SigTryAggregateStatic
    /\ args.requireSuccess
    /\ loc.callData.rs = "true"

====
